---- MODULE Spec2Model ----
(***************************************************************************)
(* md_planning: a project definition (Vacations, Resources, Projects) is   *)
(* normalised by ProjectReader, which also computes each project's         *)
(* critical path; GanttDrawer registers resources, vacations and tasks     *)
(* (dates resolved in topological order) and answers cost queries          *)
(* (get_cost, budget).                                                     *)
(*                                                                         *)
(* Encoding.  A calendar date is a day number, day 0 being a Monday.       *)
(* A duration is a number of parts of a day (DayParts to the day).  A      *)
(* resource or token name is a sequence of characters, so that the         *)
(* substring and suffix tests of the code are computed and not assumed.    *)
(* A usage token "<qty> <name>" is the record [qty, name].  An amount of   *)
(* money is the fraction [num, den].                                       *)
(*                                                                         *)
(* The calls into criticalpath.Node, gantt.Task / Milestone / Resource /   *)
(* Project and networkx are modelled next to the line that makes the call. *)
(* Task entries declare start and duration (no stop); a milestone's        *)
(* predecessors are tasks, or the milestone itself.                        *)
(***************************************************************************)
EXTENDS Integers, Sequences, FiniteSets, TLC

VARIABLES
    defn,          \* the parsed definition: yaml.safe_load(projstr)
    pc,            \* position: "reader", "resources", "project", "tasks", "ready",
                   \* "budget", "failed"; "fields", "types", "entry", "units" where single
                   \* functions are applied
    pi,            \* index of the project the current loop is at
    tasks,         \* ProjectReader.tasks, in insertion order
    critical,      \* critical_path of each project ProjectReader finished
    resources,     \* GanttDrawer.resources, in insertion order
    vacations,     \* gantt.VACATIONS
    projects,      \* GanttDrawer.projects: Project.tasks of each project
    task_registry, \* task_registry of the project being registered
    gtasks,        \* GanttDrawer.tasks
    err,           \* the exception that ended processing, or None
    ledger,        \* the rows budget() returned, empty before it ran
    ureg,          \* UREG, the unit registry of the module: unit name -> size
    drawers,       \* the GanttDrawer instances made: what self.registry refers to
    out            \* what the function applied last on its own returned or raised

vars == <<defn, pc, pi, tasks, critical, resources, vacations, projects,
          task_registry, gtasks, err, ledger, ureg, drawers, out>>

\* what reading a definition and building its GanttDrawer leaves alone
units == <<ureg, drawers, out>>

None == "None"

\* ------------------------------------------------------------------ helpers

Range(s) == {s[i] : i \in DOMAIN s}

SetMax(S) == CHOOSE x \in S : \A y \in S : y <= x

SetMin(S) == CHOOSE x \in S : \A y \in S : x <= y

Names(s) == {s[i].name : i \in DOMAIN s}

\* s[name] for a dict kept as a sequence of records with distinct names
Lookup(s, name) == s[CHOOSE i \in DOMAIN s : s[i].name = name]

\* dict[name] = rec: an existing key keeps its position
Put(s, rec) ==
    IF rec.name \in Names(s)
    THEN [i \in DOMAIN s |-> IF s[i].name = rec.name THEN rec ELSE s[i]]
    ELSE Append(s, rec)

RECURSIVE PutAll(_, _)
PutAll(s, recs) ==
    IF recs = <<>> THEN s ELSE PutAll(Put(s, Head(recs)), Tail(recs))

RECURSIVE SumSeq(_)
SumSeq(s) == IF s = <<>> THEN 0 ELSE Head(s) + SumSeq(Tail(s))

RECURSIVE Flatten(_)
Flatten(ss) == IF ss = <<>> THEN <<>> ELSE Head(ss) \o Flatten(Tail(ss))

\* Python: sub in text
IsSubstring(sub, text) ==
    \E i \in 0..(Len(text) - Len(sub)) :
        \A k \in 1..Len(sub) : text[i + k] = sub[k]

\* Python: text.endswith(suffix)
EndsWith(text, suffix) ==
    /\ Len(suffix) <= Len(text)
    /\ \A k \in 1..Len(suffix) : text[Len(text) - Len(suffix) + k] = suffix[k]

\* ------------------------------------------------------- ProjectReader

\* no date given (start: None); dates are day numbers >= 0
NoDate == -1

\* The depends_on value of an entry is [shape, names]: shape "list" with the
\* names, or "null" (depends_on: null) or "absent" (no such key), names <<>>.
\* A depends_of value that may be None is [none, names].
Some(names) == [none |-> FALSE, names |-> names]

NoneValue == [none |-> TRUE, names |-> <<>>]

\* color: None
NoColor == "None"

\* the critical_color ProjectReader is made with; None when it is not given
CriticalColor(d) ==
    IF "critical_color" \in DOMAIN d THEN d.critical_color ELSE NoColor

\* the record tmp built for one entry of a project's Tasks
TmpRecord(proj_name, e) ==
    IF e.type = "task"
    THEN LET dep == IF e.depends_on.shape = "list" THEN e.depends_on.names ELSE <<>>
         IN  [project |-> proj_name, name |-> e.name, is_milestone |-> FALSE,
              start |-> e.start, duration |-> e.duration,
              resources |-> e.resources,
              task_depends_of |-> Some(dep),
              milestone_depends_of |-> NoneValue,
              cpm_depends_of |-> dep,
              pred |-> IF dep = <<>> THEN <<"START">> ELSE dep,
              responsible |-> "",
              color |-> e.color]
    ELSE [project |-> proj_name, name |-> e.name, is_milestone |-> TRUE,
          start |-> e.start, duration |-> 0,
          resources |-> <<>>,
          task_depends_of |-> NoneValue,
          milestone_depends_of |->
              IF e.depends_on.shape = "null" THEN NoneValue
              ELSE Some(e.depends_on.names),
          cpm_depends_of |-> <<>>,
          pred |-> <<>>,
          responsible |-> "",
          color |-> e.color]

\* self.tasks after the inner loop over one project's entries
TasksAfter(ts, proj) ==
    PutAll(ts, [i \in DOMAIN proj.tasks |-> TmpRecord(proj.name, proj.tasks[i])])

\* the argument of _get_critical_path
CpmData(ts, proj_name) ==
    SelectSeq(ts, LAMBDA t : t.project = proj_name /\ ~t.is_milestone)

\* Node.to_nodes after the links were added
ToNodes(cd, n) ==
    {cd[i].name : i \in {j \in DOMAIN cd : n \in Range(cd[j].cpm_depends_of)}}

\* Node.first_nodes: the nodes no link points to
FirstNodes(cd) ==
    {n \in Names(cd) : \A m \in Names(cd) : n \notin ToNodes(cd, m)}

RECURSIVE Closure(_, _)
Closure(E, k) ==
    IF k = 0 THEN E
    ELSE Closure(E \cup {<<x[1], y[2]>> : <<x, y>> \in
                            {z \in E \X E : z[1][2] = z[2][1]}}, k - 1)

Edges(cd) == {<<m, n>> \in Names(cd) \X Names(cd) : n \in ToNodes(cd, m)}

\* Node.is_acyclic
IsAcyclic(cd) ==
    \A n \in Names(cd) : <<n, n>> \notin Closure(Edges(cd), Len(cd))

\* the exception _get_critical_path ends with, or None
CpmError(cd) ==
    IF \E i \in DOMAIN cd : \E l \in Range(cd[i].cpm_depends_of) : l \notin Names(cd)
    THEN "KeyError"
    ELSE IF ~IsAcyclic(cd) THEN "AssertionError"
    ELSE IF cd = <<>> THEN "TypeError"
    ELSE None

\* the paths Node.get_critical_path enumerates: from a first node along to_nodes
RECURSIVE PathsOfLen(_, _)
PathsOfLen(cd, k) ==
    IF k = 1 THEN {<<n>> : n \in FirstNodes(cd)}
    ELSE {Append(p[1], p[2]) : p \in
             {q \in PathsOfLen(cd, k - 1) \X Names(cd) :
                 /\ q[2] \in ToNodes(cd, q[1][Len(q[1])])
                 /\ q[2] \notin Range(q[1])}}

AllPaths(cd) == UNION {PathsOfLen(cd, k) : k \in 1..Len(cd)}

PathDuration(cd, p) == SumSeq([i \in DOMAIN p |-> Lookup(cd, p[i]).duration])

IsPrefix(p, q) == Len(p) < Len(q) /\ \A i \in DOMAIN p : p[i] = q[i]

\* Node.get_critical_path keeps one longest path.  Among paths of equal
\* duration a path is replaced by a path it is a prefix of; which of two
\* unrelated paths is kept follows the iteration order of Python sets.
LongestPaths(cd) ==
    {p \in AllPaths(cd) :
        /\ \A q \in AllPaths(cd) : PathDuration(cd, q) <= PathDuration(cd, p)
        /\ \A q \in AllPaths(cd) :
              IsPrefix(p, q) => PathDuration(cd, q) # PathDuration(cd, p)}

\* the loop over critical_path that marks the pertchart record only
MarkResponsibleOnly(ts, path, critical_color) ==
    [i \in DOMAIN ts |->
        IF ts[i].name \in Range(path)
        THEN [ts[i] EXCEPT !.responsible = "CRITICAL"]
        ELSE ts[i]]

\* the loop over critical_path: mark the pertchart record and give the
\* task the critical colour when it has none
MarkCritical(ts, path, critical_color) ==
    [i \in DOMAIN ts |->
        IF ts[i].name \in Range(path)
        THEN [ts[i] EXCEPT !.responsible = "CRITICAL",
                           !.color = IF @ = NoColor THEN critical_color ELSE @]
        ELSE ts[i]]

\* ------------------------------------------------------ get_task_type

\* An item is [shape, keys, type]: shape "dict" with its keys and the value
\* of its key type, "list", or what is neither ("str", "int", "null").
\* The result is [raises, value].

\* get_task_type that takes every mapping that is not a task for a milestone
GetTaskTypeByDefault(item) ==
    IF item.shape = "dict"
    THEN [raises |-> None,
          value |-> IF "type" \in item.keys /\ item.type = "task"
                    THEN "task" ELSE "milestone"]
    ELSE IF item.shape = "list" THEN [raises |-> None, value |-> "task"]
    ELSE [raises |-> "NotImplementedError", value |-> None]

\* get_task_type, dispatched on the class of the item
GetTaskType(item) ==
    IF item.shape = "dict"
    THEN IF "type" \in item.keys
         THEN IF item.type \in {"task", "milestone"}
              THEN [raises |-> None, value |-> item.type]
              ELSE [raises |-> "AssertionError", value |-> None]
         ELSE [raises |-> "NotImplementedError", value |-> None]
    ELSE IF item.shape = "list" THEN [raises |-> None, value |-> "task"]
    ELSE [raises |-> "NotImplementedError", value |-> None]

\* ------------------------------------- ProjectReader: fields of a task

\* A text is a sequence of characters.  A field of a task entry is
\* [shape, text, items]: shape "str" with the text, "list" with the items,
\* "null", "absent" (no such key) or "other" (a number, a mapping).
IsDigit(c) == c \in Range(<<"0", "1", "2", "3", "4", "5", "6", "7", "8", "9">>)

IsSpace(c) == c = " "

\* \w
IsWord(c) == IsDigit(c) \/ c \in {"a", "b", "M", "r", "t", "i", "n", "_"}

SubText(t, i, j) == [k \in 1..(j - i + 1) |-> t[i + k - 1]]

\* str.strip()
RECURSIVE Strip(_)
Strip(t) ==
    IF t = <<>> THEN t
    ELSE IF IsSpace(Head(t)) THEN Strip(Tail(t))
    ELSE IF IsSpace(t[Len(t)]) THEN Strip(SubText(t, 1, Len(t) - 1))
    ELSE t

\* str.split(",")
RECURSIVE SplitCommas(_)
SplitCommas(t) ==
    IF \A k \in DOMAIN t : t[k] # "," THEN <<t>>
    ELSE LET k == SetMin({j \in DOMAIN t : t[j] = ","})
         IN  <<SubText(t, 1, k - 1)>> \o SplitCommas(SubText(t, k + 1, Len(t)))

HasComma(t) == \E k \in DOMAIN t : t[k] = ","

\* \d+\.?\d* matches the whole of u
IsNumber(u) ==
    \E k \in DOMAIN u :
        /\ \A j \in 1..k : IsDigit(u[j])
        /\ \/ k = Len(u)
           \/ /\ u[k + 1] = "."
              /\ \A j \in (k + 2)..Len(u) : IsDigit(u[j])

\* regex.match(resource) for ^(\d+\.?\d*)\s+(\w+)$
RegexMatch(t) ==
    \E i \in DOMAIN t : \E j \in DOMAIN t :
        /\ i < j /\ j < Len(t)
        /\ IsNumber(SubText(t, 1, i))
        /\ \A k \in (i + 1)..j : IsSpace(t[k])
        /\ \A k \in (j + 1)..Len(t) : IsWord(t[k])

\* the loop that gives a quantity to the tokens the regex does not match
WithQuantity(tokens) ==
    [k \in DOMAIN tokens |->
        IF RegexMatch(tokens[k]) THEN tokens[k] ELSE <<"1", " ">> \o tokens[k]]

Failed(e) == [raises |-> e, value |-> <<>>]

Value(v) == [raises |-> None, value |-> v]

\* task["resources"] after "format resources"
NormaliseResources(f) ==
    IF f.shape \in {"null", "absent"} THEN Value(<<>>)
    ELSE IF f.shape = "str" /\ HasComma(f.text)
         THEN Value(WithQuantity([k \in DOMAIN SplitCommas(f.text) |->
                                     Strip(SplitCommas(f.text)[k])]))
    ELSE IF f.shape = "str" THEN Value(WithQuantity(<<Strip(f.text)>>))
    ELSE IF f.shape = "list" THEN Value(WithQuantity(f.items))
    ELSE Failed("ValueError")

\* task["depends_on"] after "anchor depends_on"
NormaliseDependsOn(f) ==
    IF f.shape \in {"null", "absent"} THEN Value(<<>>)
    ELSE IF f.shape = "str" /\ HasComma(f.text) THEN Value(SplitCommas(f.text))
    ELSE IF f.shape = "str" THEN Value(<<f.text>>)
    ELSE IF f.shape = "list" THEN Value(f.items)
    ELSE Failed("ValueError")

\* A duration or estimate of these fields is a number of ten-thousandths of
\* a day, or absent: [none, value].
Thousandth == 10

\* the values round((best + 4 * optimal + worst) / 6, 3) can take: the
\* nearest thousandth; when two are equally near, the one the binary floats
\* decide for
Estimates(best, optimal, worst) ==
    LET six == best + 4 * optimal + worst
        q == six \div (6 * Thousandth)
        r == six % (6 * Thousandth)
    IN  IF 2 * r < 6 * Thousandth THEN {q * Thousandth}
        ELSE IF 2 * r > 6 * Thousandth THEN {(q + 1) * Thousandth}
        ELSE {q * Thousandth, (q + 1) * Thousandth}

\* ---------------------------------- ProjectReader: one entry, whole

\* An entry is [shape, items, map]: a sequence of values (shape "list") or
\* a mapping from the keys of a task to values (shape "dict"); a key the
\* mapping does not have maps to Missing.  A value is a number
\* [kind "num", value], a text [kind "str", text], a list of texts
\* [kind "list", items], None [kind "null"], or Missing.
Num(n) == [kind |-> "num", value |-> n, text |-> <<>>, items |-> <<>>]

Txt(t) == [kind |-> "str", value |-> 0, text |-> t, items |-> <<>>]

Lst(items) == [kind |-> "list", value |-> 0, text |-> <<>>, items |-> items]

Nil == [kind |-> "null", value |-> 0, text |-> <<>>, items |-> <<>>]

Missing == [kind |-> "absent", value |-> 0, text |-> <<>>, items |-> <<>>]

\* the keys of the dict keys, in its order
EntryKeys ==
    <<"start", "duration", "percent_done", "resources", "depends_on", "color",
      "best", "optimal", "worst">>

\* the defaults of the dict keys
EntryDefault(k) ==
    IF k = "percent_done" THEN Num(0)
    ELSE IF k \in {"resources", "depends_on"} THEN Lst(<<>>)
    ELSE Nil

\* the fill of a sequence that reads duration before start
FillDurationFirst(items) ==
    [k \in Range(EntryKeys) |->
        LET order == <<"duration", "start", "percent_done", "resources",
                       "depends_on", "color", "best", "optimal", "worst">>
            ind == CHOOSE i \in DOMAIN order : order[i] = k
        IN  IF ind <= Len(items) THEN items[ind] ELSE EntryDefault(k)]

\* tmp_fill: task[ind] for the ind-th key, its default past the end
Fill(items) ==
    [k \in Range(EntryKeys) |->
        LET ind == CHOOSE i \in DOMAIN EntryKeys : EntryKeys[i] = k
        IN  IF ind <= Len(items) THEN items[ind] ELSE EntryDefault(k)]

\* task.get(k, default)
Get(task, k, default) == IF task[k] = Missing THEN default ELSE task[k]

\* a value as the field the normalisers of resources and depends_on read
AsField(v) ==
    [shape |-> IF v.kind = "num" THEN "other" ELSE v.kind,
     text |-> v.text, items |-> v.items]

\* the name "START" as a text
StartText == <<"S", "T", "A", "R", "T">>

\* pred that always begins with the synthetic predecessor
PertPredFromStart(dep) == <<StartText>> \o dep

\* tmp["pertchart"]["pred"]: depends_on, or ["START"] when that is empty
PertPred(dep) == IF dep = <<>> THEN <<StartText>> ELSE dep

\* The outcomes of normalising one task entry: the exception raised, or the
\* task, cpm and pertchart sub-records (several when the rounding of the
\* estimate is not decided by the numbers).
NormaliseEntry(e) ==
    LET task == IF e.shape = "list" THEN Fill(e.items) ELSE e.map
        given == Get(task, "duration", Nil).kind # "null"
        res == NormaliseResources(AsField(task["resources"]))
        dep == NormaliseDependsOn(AsField(task["depends_on"]))
        durations ==
            IF given THEN {task["duration"]}
            ELSE {Num(d) : d \in Estimates(task["best"].value, task["optimal"].value,
                                           task["worst"].value)}
        \* task["best"] + 4 * task["optimal"] + task["worst"], left to right
        estimate ==
            IF task["best"] = Missing \/ task["optimal"] = Missing THEN "KeyError"
            ELSE IF task["optimal"].kind # "num" \/ task["best"].kind # "num"
            THEN "TypeError"
            ELSE IF task["worst"] = Missing THEN "KeyError"
            ELSE IF task["worst"].kind # "num" THEN "TypeError"
            ELSE None
    IN  IF ~given /\ estimate # None THEN {[raises |-> estimate]}
        ELSE IF res.raises # None THEN {[raises |-> res.raises]}
        ELSE IF dep.raises # None THEN {[raises |-> dep.raises]}
        ELSE {[raises |-> None,
               task |-> [start |-> Get(task, "start", Nil),
                         duration |-> d,
                         percent_done |-> Get(task, "percent_done", Num(0)),
                         color |-> Get(task, "color", Nil),
                         resources |-> res.value,
                         depends_of |-> dep.value],
               cpm |-> [duration |-> d, lag |-> 0, depends_of |-> dep.value],
               pertchart |-> [start |-> 0, duration |-> d, end |-> 0,
                              responsible |-> "",
                              pred |-> PertPred(dep.value)]]
                : d \in durations}

\* --------------------------------------------------------- gantt dates

\* parts a day is divided in: a duration d stands for d / DayParts days
DayParts == 4

\* gantt: no work on Saturday, Sunday and the days of gantt.VACATIONS
NotWorked(vac, d) == d % 7 \in {5, 6} \/ d \in vac

RECURSIVE NextWorked(_, _)
NextWorked(vac, d) == IF NotWorked(vac, d) THEN NextWorked(vac, d + 1) ELSE d

\* Task.start_date, the loop over depends_of: a dependency that ends on or
\* after the start found so far moves the start to the day after its end
RECURSIVE AfterDependents(_, _)
AfterDependents(prev, ends) ==
    IF ends = <<>> THEN prev
    ELSE AfterDependents(IF Head(ends) >= prev THEN Head(ends) + 1 ELSE prev,
                         Tail(ends))

\* Task.start_date of a task with a declared start
StartDate(vac, start, ends) ==
    NextWorked(vac, AfterDependents(NextWorked(vac, start), ends))

\* Task.end_date of a task given by start and duration: the day the last of
\* the duration's working days falls on
RECURSIVE EndLoop(_, _, _, _)
EndLoop(vac, start, duration, real) ==
    IF duration > DayParts \/ NotWorked(vac, start + real)
    THEN IF ~NotWorked(vac, start + real)
         THEN EndLoop(vac, start, duration - DayParts, real + 1)
         ELSE EndLoop(vac, start, duration, real + 1)
    ELSE start + real

EndDate(vac, start, duration) == EndLoop(vac, start, duration, 0)

\* Milestone.start_date (end_date is the same day): without a declared start,
\* the working day after the last end of the tasks it depends on
MilestoneDate(vac, start, ends) ==
    IF start # NoDate THEN StartDate(vac, start, ends)
    ELSE NextWorked(vac, SetMax(Range(ends)) + 1)

\* ------------------------------------------------- GanttDrawer: resources

\* registering one resource without the checks of its price unit
ResourceErrorOfCallsOnly(r) ==
    IF r.vacations.given /\ Len(r.vacations.dates) \notin {1, 2} THEN "TypeError"
    ELSE None

\* the exception registering one resource ends with, or None
ResourceError(r) ==
    IF r.unit = "batch" /\ ~r.has_batch_size THEN "ValueError"
    ELSE IF r.vacations.given /\ Len(r.vacations.dates) \notin {1, 2} THEN "TypeError"
    ELSE IF r.unit \in {"unit", "batch"} /\ r.vacations.given THEN "ValueError"
    ELSE None

\* Resource.add_vacations(*vacations): the arguments are (dfrom, dto=None),
\* one date is that day, two dates are the days from the first to the second
AddVacations(v) ==
    IF ~v.given THEN {}
    ELSE IF Len(v.dates) = 1 THEN {<<v.dates[1], v.dates[1]>>}
    ELSE {<<v.dates[1], v.dates[2]>>}

\* the Resource object _register_resources builds
ResourceObject(r) ==
    [name |-> r.name, unit |-> r.unit, price |-> r.price,
     batch_size |-> r.batch_size, vacations |-> AddVacations(r.vacations)]

\* --------------------------------------------------- GanttDrawer: tasks

\* the work list entry's depends_of:
\* t.is_milestone and t.milestone.depends_of or t.task.depends_of
DependsOf(t) ==
    IF t.is_milestone /\ ~t.milestone_depends_of.none
                      /\ t.milestone_depends_of.names # <<>>
    THEN t.milestone_depends_of
    ELSE t.task_depends_of

\* filtered_tasks
FilteredTasks(ts, proj_name) == SelectSeq(ts, LAMBDA t : t.project = proj_name)

\* linked_tasks without the edges whose predecessor is not in the work list
LinkedTasksDeclaredOnly(ft) ==
    UNION {{<<pred, ft[i].name>> : pred \in Range(DependsOf(ft[i]).names) \cap Names(ft)}
              : i \in DOMAIN ft}

\* linked_tasks, the edges of DG
LinkedTasks(ft) ==
    UNION {{<<pred, ft[i].name>> : pred \in Range(DependsOf(ft[i]).names)}
              : i \in DOMAIN ft}

\* the nodes of nx.DiGraph(linked_tasks): the endpoints of its edges
GraphNodes(E) == {e[1] : e \in E} \cup {e[2] : e \in E}

\* the nodes nx.topological_sort can yield next
Ready(E, done) ==
    {n \in GraphNodes(E) \ done : \A e \in E : e[2] = n => e[1] \in done}

Digits == <<"0", "1", "2", "3", "4", "5", "6", "7", "8", "9">>

\* the text of a usage token: "<qty> <name>"
TokenText(tok) == <<Digits[tok.qty + 1], " ">> \o tok.name

\* the resources bound to a task: for each token, every defined resource
\* whose name occurs in the token (res_check in res)
BoundResources(rs, tokens) ==
    Flatten([i \in DOMAIN tokens |->
        LET hit == SelectSeq(rs, LAMBDA r : IsSubstring(r.name, TokenText(tokens[i])))
        IN  [j \in DOMAIN hit |-> hit[j].name]])

\* the Task or Milestone object built for work list entry t
TaskObject(vac, rs, reg, t) ==
    LET ends == [i \in DOMAIN DependsOf(t).names |->
                    Lookup(reg, DependsOf(t).names[i]).end_date]
    IN  IF t.is_milestone
        THEN [name |-> t.name, project |-> t.project, is_milestone |-> TRUE,
              duration |-> 0, resources |-> <<>>,
              depends_of |-> DependsOf(t).names,
              start_date |-> MilestoneDate(vac, t.start, ends),
              end_date |-> MilestoneDate(vac, t.start, ends)]
        ELSE [name |-> t.name, project |-> t.project, is_milestone |-> FALSE,
              duration |-> t.duration,
              resources |-> BoundResources(rs, t.resources),
              depends_of |-> DependsOf(t).names,
              start_date |-> StartDate(vac, t.start, ends),
              end_date |-> EndDate(vac, StartDate(vac, t.start, ends), t.duration)]

\* ------------------------------------------------- GanttDrawer: queries

HoursPerWorkday == 8

\* the Task objects of all projects (Project.tasks)
ProjectTasks == Flatten([i \in DOMAIN projects |-> projects[i].tasks])

\* get_bounds: the first start and the last end over all projects; a project
\* without tasks does not narrow the span, and empty says no task exists
GetBounds ==
    [empty |-> ProjectTasks = <<>>,
     start |-> IF ProjectTasks = <<>> THEN 0
               ELSE SetMin({ProjectTasks[i].start_date : i \in DOMAIN ProjectTasks}),
     stop  |-> IF ProjectTasks = <<>> THEN 0
               ELSE SetMax({ProjectTasks[i].end_date : i \in DOMAIN ProjectTasks})]

\* Resource.is_available: not a global vacation, not in a vacation of its own
ResourceIsAvailable(r, d) ==
    /\ d \notin vacations
    /\ \A h \in r.vacations : ~(h[1] <= d /\ d <= h[2])

\* GanttDrawer.is_available
IsAvailable(resource, d) ==
    /\ ~GetBounds.empty
    /\ GetBounds.start <= d /\ d <= GetBounds.stop
    /\ ResourceIsAvailable(Lookup(resources, resource), d)

\* Task.is_using
IsUsing(task, resource) == resource \in Range(Lookup(gtasks, task).resources)

\* Task.is_active
IsActive(task, d) ==
    Lookup(gtasks, task).start_date <= d /\ d <= Lookup(gtasks, task).end_date

\* GanttDrawer.get_usage: the quantity of the first token that ends with the
\* resource name, 0 when there is none
GetUsage(task, resource) ==
    LET tokens == Lookup(tasks, task).resources
        hits == {i \in DOMAIN tokens : EndsWith(TokenText(tokens[i]), resource)}
    IN  IF hits = {} THEN 0 ELSE tokens[SetMin(hits)].qty

\* math.ceil(task_length)
CeilDays(duration) == (duration + DayParts - 1) \div DayParts

\* Resource.convert(number_of_days=...): the price per workday, as num / den
Convert(r, number_of_days) ==
    IF r.unit = "unit" THEN [num |-> r.price, den |-> number_of_days]
    ELSE IF r.unit = "batch"
         THEN [num |-> r.price, den |-> r.batch_size * number_of_days]
    ELSE IF r.unit = "workhour"
         THEN [num |-> r.price * HoursPerWorkday, den |-> 1]
    ELSE [num |-> r.price, den |-> 1]

Bit(b) == IF b THEN 1 ELSE 0

\* get_cost raises TypeError when the duration is 0:
\* "duration or float(end_date - start_date)" takes the float of a timedelta
GetCostRaises(task) == Lookup(gtasks, task).duration = 0

\* get_cost of a task with a duration: the amount as num / den
GetCost(task, resource, d) ==
    LET mytask == Lookup(gtasks, task)
        task_length == mytask.duration
        task_days == task_length \div DayParts
        task_decimals == task_length % DayParts
        duration_left == (mytask.start_date + task_days) - d
        time_scaling == IF duration_left # 0 THEN DayParts ELSE task_decimals
        rate == Convert(Lookup(resources, resource), CeilDays(task_length))
    IN  IF duration_left > task_days THEN [num |-> 0, den |-> 1]
        ELSE [num |-> rate.num * time_scaling * GetUsage(task, resource)
                        * Bit(IsAvailable(resource, d))
                        * Bit(IsUsing(task, resource))
                        * Bit(IsActive(task, d)),
              den |-> rate.den * DayParts]

\* the days budget() iterates over: start + ind for ind in range(days)
BudgetDays ==
    IF GetBounds.empty THEN <<>>
    ELSE [ind \in 1..(GetBounds.stop - GetBounds.start + 1) |->
             GetBounds.start + ind - 1]

\* the rows appended for one resource of one task
RowsOfResource(proj_name, task, resource) ==
    SelectSeq([ind \in DOMAIN BudgetDays |->
                  [project |-> proj_name, task |-> task, resource |-> resource,
                   category |-> "", subcategory |-> "",
                   date |-> BudgetDays[ind],
                   amount |-> GetCost(task, resource, BudgetDays[ind])]],
              LAMBDA row : row.amount.num # 0)

RowsOfTask(proj_name, t) ==
    IF t.is_milestone THEN <<>>
    ELSE Flatten([k \in DOMAIN t.resources |->
                     RowsOfResource(proj_name, t.name, t.resources[k])])

RowsOfProject(p) ==
    Flatten([j \in DOMAIN p.tasks |-> RowsOfTask(p.name, p.tasks[j])])

\* the rows of budget()
BudgetRows == Flatten([i \in DOMAIN projects |-> RowsOfProject(projects[i])])

\* budget() raises when get_cost is called on a task without duration
BudgetRaises ==
    /\ BudgetDays # <<>>
    /\ \E i \in DOMAIN ProjectTasks :
          /\ ~ProjectTasks[i].is_milestone
          /\ ProjectTasks[i].resources # <<>>
          /\ GetCostRaises(ProjectTasks[i].name)

\* ------------------------------------- GanttDrawer: calls with a date

\* A date argument is [is_str, text, day]: a datetime.date of day number
\* day, or a text.  The texts are those of the days of September 2022,
\* "2022-09-DD", and texts dateutil does not recognise.
DateObject(d) == [is_str |-> FALSE, text |-> <<>>, day |-> d]

DateText(t) == [is_str |-> TRUE, text |-> t, day |-> 0]

\* str(date) of day number d, day 0 being 2022-09-05
IsoText(d) ==
    <<"2", "0", "2", "2", "-", "0", "9", "-">>
        \o <<Digits[((d + 5) \div 10) + 1], Digits[((d + 5) % 10) + 1]>>

DigitValue(c) == (CHOOSE i \in DOMAIN Digits : Digits[i] = c) - 1

\* parsedate(text).date(): the day number, or ParserError for a text that
\* is no date of September 2022
ParseDate(t) ==
    IF /\ Len(t) = 10
       /\ SubText(t, 1, 8) = <<"2", "0", "2", "2", "-", "0", "9", "-">>
       /\ IsDigit(t[9]) /\ IsDigit(t[10])
       /\ 10 * DigitValue(t[9]) + DigitValue(t[10]) \in 1..30
    THEN [raises |-> None, day |-> 10 * DigitValue(t[9]) + DigitValue(t[10]) - 5]
    ELSE [raises |-> "ParserError", day |-> 0]

\* what a call returns or raises: [raises, message, value], the value a
\* fraction [num, den] (True is 1, False is 0)
Returns(num, den) == [raises |-> None, message |-> <<>>, value |-> [num |-> num, den |-> den]]

Raises(e, message) == [raises |-> e, message |-> message, value |-> [num |-> 0, den |-> 1]]

\* f"Unrecognised Date: {date}"
UnrecognisedDate(t) ==
    <<"U", "n", "r", "e", "c", "o", "g", "n", "i", "s", "e", "d", " ",
      "D", "a", "t", "e", ":", " ">> \o t

\* f"Resource named {resource} not defined"
ResourceNotDefined(r) ==
    <<"R", "e", "s", "o", "u", "r", "c", "e", " ", "n", "a", "m", "e", "d", " ">>
        \o r \o <<" ", "n", "o", "t", " ", "d", "e", "f", "i", "n", "e", "d">>

\* d = date; if isinstance(d, str): d = parsedate(date).date()
DateFails(date) == date.is_str /\ ParseDate(date.text).raises # None

DayOf(date) == IF date.is_str THEN ParseDate(date.text).day ELSE date.day

\* Task.is_active(date) on the Task object of a registered task
TaskIsActive(task, date) ==
    IF DateFails(date) THEN Raises("ValueError", UnrecognisedDate(date.text))
    ELSE Returns(Bit(IsActive(task, DayOf(date))), 1)

\* GanttDrawer.is_active(task, date)
DrawerIsActive(task, date) ==
    IF DateFails(date) THEN Raises("ValueError", UnrecognisedDate(date.text))
    ELSE IF task \notin Names(gtasks) THEN Raises("KeyError", <<>>)
    ELSE TaskIsActive(task, DateObject(DayOf(date)))

\* GanttDrawer.is_available(resource, date) that reads the date first
DrawerIsAvailableDateFirst(resource, date) ==
    IF DateFails(date) THEN Raises("ValueError", UnrecognisedDate(date.text))
    ELSE IF resource \notin Names(resources)
    THEN Raises("ValueError", ResourceNotDefined(resource))
    ELSE Returns(Bit(IsAvailable(resource, DayOf(date))), 1)

\* GanttDrawer.is_available(resource, date)
DrawerIsAvailable(resource, date) ==
    IF resource \notin Names(resources)
    THEN Raises("ValueError", ResourceNotDefined(resource))
    ELSE IF DateFails(date) THEN Raises("ValueError", UnrecognisedDate(date.text))
    ELSE Returns(Bit(IsAvailable(resource, DayOf(date))), 1)

\* GanttDrawer.get_usage(task, resource)
DrawerGetUsage(task, resource) ==
    IF task \notin Names(tasks) THEN Raises("ValueError", <<>>)
    ELSE IF resource \notin Names(resources) THEN Raises("ValueError", <<>>)
    ELSE Returns(GetUsage(task, resource), 1)

\* GanttDrawer.get_cost(task, resource, date)
DrawerGetCost(task, resource, date) ==
    IF DateFails(date) THEN Raises("ValueError", UnrecognisedDate(date.text))
    ELSE IF task \notin Names(gtasks) THEN Raises("KeyError", <<>>)
    ELSE IF GetCostRaises(task) THEN Raises("TypeError", <<>>)
    ELSE LET mytask == Lookup(gtasks, task)
             task_days == mytask.duration \div DayParts
         IN  IF (mytask.start_date + task_days) - DayOf(date) > task_days
             THEN Returns(0, 1)
             ELSE IF resource \notin Names(resources) THEN Raises("KeyError", <<>>)
             ELSE Returns(GetCost(task, resource, DayOf(date)).num,
                          GetCost(task, resource, DayOf(date)).den)

\* ------------------------------------------------------ unit registry

\* The size of a unit is counted in fifths of an hour, so that
\* workmonth = 4.33 workweek is a whole number.
HourSize == 5

\* "unit" and "batch" are dimensionless, the others are times
TimeUnit(size) == [time |-> TRUE, size |-> size]

Dimensionless == [time |-> FALSE, size |-> 1]

WorkhourSize == 1 * HourSize

WorkdaySize == 8 * WorkhourSize

WorkweekSize == 5 * WorkdaySize

WorkmonthSize == (433 * WorkweekSize) \div 100

WorkquarterSize == 3 * WorkmonthSize

\* UREG once the module is imported: each name and alias with its unit
BaseRegistry ==
    [n \in {"unit", "u", "batch", "b", "hour",
            "workhour", "wh", "workhours", "workday", "wd", "workdays",
            "workweek", "ww", "workweeks", "workmonth", "wm", "workmonths",
            "workquarter", "wq", "workquarters"} |->
        IF n \in {"unit", "u", "batch", "b"} THEN Dimensionless
        ELSE IF n \in {"hour", "workhour", "wh", "workhours"} THEN TimeUnit(WorkhourSize)
        ELSE IF n \in {"workday", "wd", "workdays"} THEN TimeUnit(WorkdaySize)
        ELSE IF n \in {"workweek", "ww", "workweeks"} THEN TimeUnit(WorkweekSize)
        ELSE IF n \in {"workmonth", "wm", "workmonths"} THEN TimeUnit(WorkmonthSize)
        ELSE TimeUnit(WorkquarterSize)]

\* the registry a GanttDrawer's self.registry refers to
RegistryOf(drawer) == IF drawer.registry = "UREG" THEN ureg ELSE BaseRegistry

\* registry.define("<name> = <factor> * <of> = _ = <alias>")
Define(reg, d) ==
    [n \in DOMAIN reg \cup {d.name, d.alias} |->
        IF n \in {d.name, d.alias}
        THEN [time |-> reg[d.of].time, size |-> d.factor * reg[d.of].size]
        ELSE reg[n]]

\* registry.define("@alias <of> = <alias>")
DefineAliasOf(reg, a) ==
    [n \in DOMAIN reg \cup {a.alias} |-> IF n = a.alias THEN reg[a.of] ELSE reg[n]]

\* number_of_days: None or a number
NoDays == [none |-> TRUE, value |-> 0]

Days(n) == [none |-> FALSE, value |-> n]

Raised(e) == [raises |-> e, num |-> 0, den |-> 1]

RECURSIVE Gcd(_, _)
Gcd(a, b) == IF b = 0 THEN a ELSE Gcd(b, a % b)

\* a number returned: the fraction num / den in lowest terms
Returned(num, den) ==
    IF num = 0 THEN [raises |-> None, num |-> 0, den |-> 1]
    ELSE [raises |-> None, num |-> num \div Gcd(num, den), den |-> den \div Gcd(num, den)]

\* quantity.to(f"1 / {unit}").m for a quantity of num / den per `per`
QuantityTo(reg, num, den, per, unit) ==
    IF unit \notin DOMAIN reg THEN Raised("UndefinedUnitError")
    ELSE IF reg[unit].time # per.time THEN Raised("DimensionalityError")
    ELSE Returned(num * reg[unit].size, den * per.size)

\* convert that spreads every price over number_of_days
ResourceConvertOverDays(reg, r, unit, number_of_days) ==
    IF number_of_days.none THEN Raised("UndefinedUnitError")
    ELSE IF number_of_days.value = 0 THEN Raised("ZeroDivisionError")
    ELSE IF r.unit \notin DOMAIN reg THEN Raised("UndefinedUnitError")
    ELSE QuantityTo(reg, r.price, number_of_days.value,
                    IF reg[r.unit].time THEN reg[r.unit] ELSE reg["workday"], unit)

\* convert that takes a missing number_of_days for one day
ResourceConvertDefaultDay(reg, r, unit, number_of_days) ==
    IF r.unit \notin DOMAIN reg THEN Raised("UndefinedUnitError")
    ELSE QuantityTo(reg, r.price,
                    IF reg[r.unit].time THEN 1
                    ELSE (IF r.unit = "batch" THEN r.batch_size ELSE 1)
                         * (IF number_of_days.none \/ number_of_days.value = 0 THEN 1
                            ELSE number_of_days.value),
                    IF reg[r.unit].time THEN reg[r.unit] ELSE reg["workday"], unit)

\* Resource.convert(unit, number_of_days).  The text of number_of_days is put
\* in the expression the registry parses: None is read as a unit name
ResourceConvert(reg, r, unit, number_of_days) ==
    IF r.unit \in {"unit", "batch"}
    THEN IF number_of_days.none THEN Raised("UndefinedUnitError")
         ELSE IF number_of_days.value = 0 THEN Raised("ZeroDivisionError")
         ELSE QuantityTo(reg, r.price,
                         (IF r.unit = "batch" THEN r.batch_size ELSE 1)
                             * number_of_days.value,
                         reg["workday"], unit)
    ELSE IF r.unit \notin DOMAIN reg THEN Raised("UndefinedUnitError")
    ELSE QuantityTo(reg, r.price, 1, reg[r.unit], unit)

\* ------------------------------------------- inputs of the single calls

\* the last day a call asks about
MaxDay == 8

\* a name no task has
nope == "nope"

\* a name no resource has
zed == <<"z", "e", "d">>

\* the dates the calls are given: every day up to MaxDay as a date, some of
\* them as a text, and texts that are no date: "", "foo", "2022-09-31"
BadDateTexts ==
    {<<>>, <<"f", "o", "o">>,
     <<"2", "0", "2", "2", "-", "0", "9", "-", "3", "1">>}

DateArguments ==
    {DateObject(d) : d \in 0..MaxDay}
    \cup {DateText(IsoText(d)) : d \in {0, 4, 7}}
    \cup {DateText(t) : t \in BadDateTexts}

\* the GanttDrawer instances made
MaxDrawers == 2

\* what define_unit and define_alias are called with:
\* "foo = 2 * hour = _ = wiggly_foo", "workday = foo2"
UnitDefinitions == {[name |-> "foo", alias |-> "wiggly_foo", factor |-> 2, of |-> "hour"]}

AliasDefinitions == {[alias |-> "foo2", of |-> "workday"]}

TargetUnits == {"workhour", "workday", "workweek", "workmonth", "workquarter",
                "foo", "foo2", "unit"}

\* the longest task convert is called for, in days
MaxDays == 2

DaysArguments == {NoDays} \cup {Days(n) : n \in 0..MaxDays}

\* ------------------------------------------------------------- actions

Fail(e) ==
    /\ pc' = "failed"
    /\ err' = e

\* ProjectReader.__init__, one pass of the loop over Projects: the entries
\* are normalised into self.tasks, then the critical path is computed and
\* its tasks are marked
ReadProject ==
    /\ pc = "reader"
    /\ LET proj == defn.projects[pi]
           ts == TasksAfter(tasks, proj)
           cd == CpmData(ts, proj.name)
       IN  IF CpmError(cd) # None
           THEN /\ Fail(CpmError(cd))
                /\ tasks' = ts
                /\ UNCHANGED <<pi, critical>>
           ELSE \E path \in LongestPaths(cd) :
                /\ tasks' = MarkCritical(ts, path, CriticalColor(defn))
                /\ critical' = Append(critical, path)
                /\ pi' = IF pi = Len(defn.projects) THEN 1 ELSE pi + 1
                /\ pc' = IF pi = Len(defn.projects) THEN "resources" ELSE "reader"
                /\ err' = err
    /\ UNCHANGED <<defn, resources, vacations, projects, task_registry, gtasks, ledger>>
    /\ UNCHANGED units

\* build_project and GanttDrawer.__init__ up to _register_tasks:
\* _register_projects, _register_resources, _register_vacations
RegisterResources ==
    /\ pc = "resources"
    /\ LET bad == {i \in DOMAIN defn.resources : ResourceError(defn.resources[i]) # None}
       IN  IF bad # {}
           THEN /\ Fail(ResourceError(defn.resources[SetMin(bad)]))
                /\ resources' = [i \in 1..(SetMin(bad) - 1) |->
                                    ResourceObject(defn.resources[i])]
                /\ UNCHANGED vacations
           ELSE /\ resources' = [i \in DOMAIN defn.resources |->
                                    ResourceObject(defn.resources[i])]
                /\ vacations' = defn.vacations
                /\ pc' = "project"
                /\ err' = err
    /\ projects' = [i \in DOMAIN defn.projects |->
                       [name |-> defn.projects[i].name, tasks |-> <<>>]]
    /\ UNCHANGED <<defn, pi, tasks, critical, task_registry, gtasks, ledger>>
    /\ UNCHANGED units

\* _register_tasks, the head of the loop over projects: filtered_tasks,
\* linked_tasks and DG.  Iterating a depends_of that is None raises TypeError
StartProject ==
    /\ pc = "project"
    /\ LET ft == FilteredTasks(tasks, projects[pi].name)
       IN  IF \E i \in DOMAIN ft : DependsOf(ft[i]).none
           THEN Fail("TypeError")
           ELSE pc' = "tasks" /\ err' = err
    /\ task_registry' = <<>>
    /\ UNCHANGED <<defn, pi, tasks, critical, resources, vacations, projects, gtasks, ledger>>
    /\ UNCHANGED units

\* _register_tasks, one pass of the loop over nx.topological_sort(DG): the
\* node's work list entry is looked up ([0] of an empty list raises
\* IndexError), its Task or Milestone is built and added to the project
RegisterTask ==
    /\ pc = "tasks"
    /\ LET ft == FilteredTasks(tasks, projects[pi].name)
       IN  \E n \in Ready(LinkedTasks(ft), Names(task_registry)) :
               IF n \notin Names(ft)
               THEN /\ Fail("IndexError")
                    /\ UNCHANGED <<task_registry, projects>>
               ELSE LET obj == TaskObject(vacations, resources, task_registry,
                                          Lookup(ft, n))
                    IN  /\ task_registry' = Append(task_registry, obj)
                        /\ projects' = [projects EXCEPT ![pi].tasks = Append(@, obj)]
                        /\ UNCHANGED <<pc, err>>
    /\ UNCHANGED <<defn, pi, tasks, critical, resources, vacations, gtasks, ledger>>
    /\ UNCHANGED units

\* _register_tasks, the end of one project: topological_sort is exhausted
\* (it raises NetworkXUnfeasible when nodes are left, which are on or behind
\* a cycle) and self.tasks.update(**task_registry)
FinishProject ==
    /\ pc = "tasks"
    /\ LET E == LinkedTasks(FilteredTasks(tasks, projects[pi].name))
       IN  /\ Ready(E, Names(task_registry)) = {}
           /\ IF GraphNodes(E) \ Names(task_registry) # {}
              THEN /\ Fail("NetworkXUnfeasible")
                   /\ UNCHANGED <<pi, gtasks>>
              ELSE /\ gtasks' = PutAll(gtasks, task_registry)
                   /\ pi' = IF pi = Len(projects) THEN pi ELSE pi + 1
                   /\ pc' = IF pi = Len(projects) THEN "ready" ELSE "project"
                   /\ err' = err
    /\ UNCHANGED <<defn, tasks, critical, resources, vacations, projects, task_registry, ledger>>
    /\ UNCHANGED units

\* budget()
Budget ==
    /\ pc = "ready"
    /\ IF BudgetRaises
       THEN Fail("TypeError") /\ UNCHANGED ledger
       ELSE pc' = "budget" /\ ledger' = BudgetRows /\ err' = err
    /\ UNCHANGED <<defn, pi, tasks, critical, resources, vacations, projects,
                   task_registry, gtasks>>
    /\ UNCHANGED units

\* ProjectReader.__init__, the fields of one task entry given as a mapping:
\* "duration and pert estimations", "format resources and depends_on"
NormaliseTask ==
    /\ pc = "fields"
    /\ LET res == NormaliseResources(defn.resources)
           dep == NormaliseDependsOn(defn.depends_on)
       IN  IF defn.duration.none
              /\ (defn.best.none \/ defn.optimal.none \/ defn.worst.none)
           THEN Fail("KeyError") /\ UNCHANGED out
           ELSE IF res.raises # None THEN Fail(res.raises) /\ UNCHANGED out
           ELSE IF dep.raises # None THEN Fail(dep.raises) /\ UNCHANGED out
           ELSE \E dur \in IF defn.duration.none
                           THEN Estimates(defn.best.value, defn.optimal.value,
                                          defn.worst.value)
                           ELSE {defn.duration.value} :
                /\ out' = [fn |-> "task",
                           duration |-> dur,
                           best |-> IF defn.duration.none THEN defn.best.value ELSE dur,
                           optimal |-> IF defn.duration.none THEN defn.optimal.value ELSE dur,
                           worst |-> IF defn.duration.none THEN defn.worst.value ELSE dur,
                           resources |-> res.value,
                           depends_on |-> dep.value]
                /\ pc' = "normalised"
                /\ err' = err
    /\ UNCHANGED <<defn, pi, tasks, critical, resources, vacations, projects,
                   task_registry, gtasks, ledger, ureg, drawers>>

NextFields == NormaliseTask

\* get_task_type(item) on the item of the definition
ClassifyItem ==
    /\ pc = "types"
    /\ out' = [fn |-> "get_task_type", result |-> GetTaskType(defn)]
    /\ UNCHANGED <<defn, pc, pi, tasks, critical, resources, vacations, projects,
                   task_registry, gtasks, err, ledger, ureg, drawers>>

NextTypes == ClassifyItem

\* ProjectReader.__init__, one task entry given as a sequence or a mapping:
\* from "if isinstance(task, list)" to self.tasks[name] = tmp
NormaliseItem ==
    /\ pc = "entry"
    /\ \E result \in NormaliseEntry(defn) :
          IF result.raises # None
          THEN Fail(result.raises) /\ UNCHANGED out
          ELSE /\ out' = [fn |-> "entry", result |-> result]
               /\ pc' = "normalised"
               /\ err' = err
    /\ UNCHANGED <<defn, pi, tasks, critical, resources, vacations, projects,
                   task_registry, gtasks, ledger, ureg, drawers>>

NextEntry == NormaliseItem

\* GanttDrawer.__init__: self.registry = UREG (the registration of the
\* definition's resources and tasks is RegisterResources .. FinishProject)
NewDrawer ==
    /\ pc = "units"
    /\ Len(drawers) < MaxDrawers
    /\ drawers' = Append(drawers, [registry |-> "UREG"])
    /\ UNCHANGED <<defn, pc, pi, tasks, critical, resources, vacations, projects,
                   task_registry, gtasks, err, ledger, ureg, out>>

\* define_unit on one GanttDrawer: self.registry.define(unit)
DefineUnit ==
    /\ pc = "units"
    /\ \E i \in DOMAIN drawers : \E d \in UnitDefinitions :
          /\ drawers[i].registry = "UREG"
          /\ d.of \in DOMAIN RegistryOf(drawers[i])
          /\ ureg' = Define(RegistryOf(drawers[i]), d)
          /\ out' = [fn |-> "define_unit", self |-> i, names |-> {d.name, d.alias}]
    /\ UNCHANGED <<defn, pc, pi, tasks, critical, resources, vacations, projects,
                   task_registry, gtasks, err, ledger, drawers>>

\* define_alias on one GanttDrawer, in the full or the abbreviated syntax:
\* both end in self.registry.define("@alias ...")
DefineAlias ==
    /\ pc = "units"
    /\ \E i \in DOMAIN drawers : \E a \in AliasDefinitions :
          /\ drawers[i].registry = "UREG"
          /\ a.of \in DOMAIN RegistryOf(drawers[i])
          /\ ureg' = DefineAliasOf(RegistryOf(drawers[i]), a)
          /\ out' = [fn |-> "define_alias", self |-> i, names |-> {a.alias}]
    /\ UNCHANGED <<defn, pc, pi, tasks, critical, resources, vacations, projects,
                   task_registry, gtasks, err, ledger, drawers>>

\* Resource.convert(unit, number_of_days) on the resource of the definition
ConvertResource ==
    /\ pc = "units"
    /\ \E unit \in TargetUnits : \E n \in DaysArguments :
          out' = [fn |-> "convert", unit |-> unit, number_of_days |-> n,
                  result |-> ResourceConvert(ureg, defn, unit, n)]
    /\ UNCHANGED <<defn, pc, pi, tasks, critical, resources, vacations, projects,
                   task_registry, gtasks, err, ledger, ureg, drawers>>

\* the calls made on the GanttDrawer once it is built, and on its Task
\* objects: a task name (registered or not), a resource name (defined or
\* not) and a date.  The calls leave the GanttDrawer as it is, so one call
\* is followed in each behaviour.
Query ==
    /\ pc = "ready"
    /\ out.fn = "none"
    /\ \E task \in Names(gtasks) \cup {nope} :
       \E resource \in Names(resources) \cup {zed} :
       \E date \in DateArguments :
          \/ /\ task # nope
             /\ out' = [fn |-> "Task.is_active", task |-> task, date |-> date,
                        result |-> TaskIsActive(task, date)]
          \/ out' = [fn |-> "is_active", task |-> task, date |-> date,
                     result |-> DrawerIsActive(task, date)]
          \/ out' = [fn |-> "is_available", resource |-> resource, date |-> date,
                     result |-> DrawerIsAvailable(resource, date)]
          \/ out' = [fn |-> "get_usage", task |-> task, resource |-> resource,
                     result |-> DrawerGetUsage(task, resource)]
          \/ out' = [fn |-> "get_cost", task |-> task, resource |-> resource,
                     date |-> date,
                     result |-> DrawerGetCost(task, resource, date)]
    /\ UNCHANGED <<defn, pc, pi, tasks, critical, resources, vacations, projects,
                   task_registry, gtasks, err, ledger, ureg, drawers>>

NextQuery ==
    \/ ReadProject
    \/ RegisterResources
    \/ StartProject
    \/ RegisterTask
    \/ FinishProject
    \/ Query

NextUnits ==
    \/ NewDrawer
    \/ DefineUnit
    \/ DefineAlias
    \/ ConvertResource

Next ==
    \/ ReadProject
    \/ RegisterResources
    \/ StartProject
    \/ RegisterTask
    \/ FinishProject
    \/ Budget

\* ------------------------------------------------------------- inputs

\* the longest duration of a task, in days
MaxDur == 2

tin == <<"t", "i", "n">>

Martin == <<"M", "a", "r", "t", "i", "n">>

NoVacations == [given |-> FALSE, dates |-> <<>>]

DependsOn(names) == [shape |-> "list", names |-> names]

DependsOnNull == [shape |-> "null", names |-> <<>>]

DependsOnAbsent == [shape |-> "absent", names |-> <<>>]

TaskEntry(name, start, duration, res, dep) ==
    [name |-> name, type |-> "task", start |-> start, duration |-> duration,
     resources |-> res, depends_on |-> dep, color |-> NoColor]

MilestoneEntry(name, dep) ==
    [name |-> name, type |-> "milestone", start |-> NoDate, duration |-> 0,
     resources |-> <<>>, depends_on |-> dep, color |-> NoColor]

Coloured(e, c) == [e EXCEPT !.color = c]

Token(qty, name) == [qty |-> qty, name |-> name]

TimeResource(name, unit, price, vac) ==
    [name |-> name, unit |-> unit, price |-> price, has_batch_size |-> FALSE,
     batch_size |-> 1, vacations |-> vac]

WholeDurations == {d * DayParts : d \in 0..MaxDur}

\* A project P of three entries a, b, c with every shape of dependency
\* among them (none, chains, forks, joins, a cycle, the name x that P does
\* not declare), c a task or a milestone, a with or without a resource; and
\* a project Q that declares x, read before or after P.
GraphProjectP(v) ==
    [name |-> "P",
     tasks |-> <<TaskEntry("a", 0, v.da, v.ra, v.depa),
                 TaskEntry("b", 0, v.db, <<>>, v.depb),
                 IF v.cm THEN MilestoneEntry("c", v.depc)
                 ELSE TaskEntry("c", 0, DayParts, <<Token(1, tin)>>, v.depc)>>]

GraphProjectQ ==
    [name |-> "Q",
     tasks |-> <<TaskEntry("x", 1, DayParts, <<>>, DependsOnAbsent),
                 TaskEntry("y", 1, DayParts, <<Token(2, Martin)>>, DependsOn(<<"x">>))>>]

GraphInputs ==
    {[vacations |-> {},
      resources |-> <<TimeResource(tin, "workday", 3, NoVacations),
                      TimeResource(Martin, "workhour", 1, NoVacations)>>,
      projects |-> IF v.qfirst THEN <<GraphProjectQ, GraphProjectP(v)>>
                   ELSE <<GraphProjectP(v), GraphProjectQ>>]
     : v \in [da : WholeDurations, db : WholeDurations,
              ra : {<<>>, <<Token(1, zed)>>},
              depa : {DependsOnAbsent, DependsOn(<<"c">>), DependsOn(<<"x">>)},
              depb : {DependsOnNull, DependsOn(<<"a">>)},
              depc : {DependsOnAbsent, DependsOnNull, DependsOn(<<"a">>),
                      DependsOn(<<"b">>), DependsOn(<<"a", "b">>),
                      DependsOn(<<"x">>), DependsOn(<<"c">>)},
              cm : BOOLEAN, qfirst : BOOLEAN]}

\* the vacations a resource may declare: none, one day, or two days in
\* either order
VacationLists ==
    {NoVacations}
    \cup {[given |-> TRUE, dates |-> <<d>>] : d \in {1, 4}}
    \cup {[given |-> TRUE, dates |-> <<d, e>>] : <<d, e>> \in {<<1, 4>>, <<4, 1>>}}

\* Two projects of a chain each (a before b, c before d): a starts on any
\* day of the week, with a whole or fractional duration or none, and uses
\* tin once, twice over two tokens, or an undefined resource; tin is on
\* vacation or not, with or without a global vacation day.
CostInputs ==
    {[vacations |-> v.gv,
      resources |-> <<TimeResource(tin, "workday", 3, v.vac),
                      TimeResource(Martin, "workhour", 1, NoVacations)>>,
      projects |-> <<[name |-> "P1",
                      tasks |-> <<TaskEntry("a", v.sa, v.da, v.ra, DependsOnAbsent),
                                  TaskEntry("b", 0, v.db, <<Token(1, Martin)>>,
                                            DependsOn(<<"a">>))>>],
                     [name |-> "P2",
                      tasks |-> <<TaskEntry("c", 1, DayParts, <<Token(2, tin)>>,
                                            DependsOnAbsent),
                                  TaskEntry("d", 0, DayParts + 1, <<>>,
                                            DependsOn(<<"c">>))>>]>>]
     : v \in [sa : 0..6,
              da : {0, 1, DayParts, DayParts + 1, MaxDur * DayParts},
              db : {1, DayParts},
              ra : {<<Token(1, tin)>>, <<Token(2, tin)>>,
                    <<Token(1, tin), Token(1, Martin)>>, <<Token(1, zed)>>},
              vac : VacationLists,
              gv : {{}, {2}}]}

InitAt(start, inputs) ==
    /\ defn \in inputs
    /\ pc = start
    /\ pi = 1
    /\ tasks = <<>>
    /\ critical = <<>>
    /\ resources = <<>>
    /\ vacations = {}
    /\ projects = <<>>
    /\ task_registry = <<>>
    /\ gtasks = <<>>
    /\ err = None
    /\ ledger = <<>>
    /\ ureg = BaseRegistry
    /\ drawers = <<>>
    /\ out = [fn |-> "none"]

InitWith(inputs) == InitAt("reader", inputs)

Init == InitWith(GraphInputs)

Spec == Init /\ [][Next]_vars

\* A chain a before b whose task a uses the resource tin, and tin priced in
\* every kind of unit, with or without batch_size, with no, one, two, three
\* or an empty list of vacation dates, defined before or after Martin.
ResourceInputs ==
    {[vacations |-> {},
      resources |->
          LET r == [name |-> tin, unit |-> v.unit, price |-> 3,
                    has_batch_size |-> v.sized, batch_size |-> 2,
                    vacations |-> v.vac]
              m == TimeResource(Martin, "workhour", 1, NoVacations)
          IN  IF v.first THEN <<r, m>> ELSE <<m, r>>,
      projects |-> <<[name |-> "P1",
                      tasks |-> <<TaskEntry("a", 0, DayParts, <<Token(1, tin)>>,
                                            DependsOnAbsent),
                                  TaskEntry("b", 0, DayParts, <<Token(1, Martin)>>,
                                            DependsOn(<<"a">>))>>]>>]
     : v \in [unit : {"unit", "batch", "workday"},
              sized : BOOLEAN,
              vac : VacationLists
                    \cup {[given |-> TRUE, dates |-> <<>>],
                          [given |-> TRUE, dates |-> <<1, 2, 4>>]},
              first : BOOLEAN]}

InitResources == InitWith(ResourceInputs)

SpecResources == InitResources /\ [][Next]_vars

InitCost == InitWith(CostInputs)

SpecCost == InitCost /\ [][Next]_vars

\* the longest text of a field
MaxText == 5

Texts(alphabet, n) == UNION {[1..k -> alphabet] : k \in 0..n}

Str(t) == [shape |-> "str", text |-> t, items |-> <<>>]

List(items) == [shape |-> "list", text |-> <<>>, items |-> items]

Null == [shape |-> "null", text |-> <<>>, items |-> <<>>]

AbsentField == [shape |-> "absent", text |-> <<>>, items |-> <<>>]

Other == [shape |-> "other", text |-> <<>>, items |-> <<>>]

NoNumber == [none |-> TRUE, value |-> 0]

Number(n) == [none |-> FALSE, value |-> n]

\* every field in every shape
Fields(alphabet, n) ==
    {Null, AbsentField, Other}
    \cup {Str(t) : t \in Texts(alphabet, n)}
    \cup {List(<<t>>) : t \in Texts(alphabet, n - 1)}
    \cup {List(<<t, u>>) : t \in Texts(alphabet, n - 1), u \in Texts(alphabet, 1)}
    \cup {List(<<>>)}

\* durations and estimates, in ten-thousandths of a day: 0, 0.003, 0.0625,
\* 0.125, 1
Amounts == {0, 3 * Thousandth, 625, 125 * Thousandth, 1000 * Thousandth}

\* One task entry: the duration and the estimates in every combination with
\* plain other fields, then each of resources and depends_on in every shape
\* and text with a plain duration.
FieldInputs ==
    {[duration |-> d, best |-> b, optimal |-> o, worst |-> w,
      resources |-> Str(Martin), depends_on |-> Null]
        : d \in {NoNumber} \cup {Number(n) : n \in Amounts},
          b \in {NoNumber} \cup {Number(n) : n \in Amounts},
          o \in {Number(n) : n \in Amounts},
          w \in {Number(n) : n \in Amounts}}
    \cup {[duration |-> Number(625), best |-> NoNumber, optimal |-> NoNumber,
           worst |-> NoNumber, resources |-> f, depends_on |-> Null]
            : f \in Fields({"1", ".", " ", ",", "a", "-"}, MaxText)}
    \cup {[duration |-> Number(625), best |-> NoNumber, optimal |-> NoNumber,
           worst |-> NoNumber, resources |-> Null, depends_on |-> f]
            : f \in Fields({"a", "b", " ", ","}, MaxText - 1)}

\* A project of a task a that starts on any day of the week and lasts one
\* or two days, a task b after a whose declared start is before, within or
\* after a, and c after a and b, a task declared on the first day or late,
\* or a milestone; with or without a global vacation day.
ScheduleInputs ==
    {[vacations |-> v.gv,
      resources |-> <<TimeResource(tin, "workday", 3, NoVacations)>>,
      projects |-> <<[name |-> "P1",
                      tasks |-> <<TaskEntry("a", v.sa, v.da, <<>>, DependsOnAbsent),
                                  TaskEntry("b", v.sb, DayParts, <<Token(1, tin)>>,
                                            DependsOn(<<"a">>)),
                                  IF v.sc = NoDate
                                  THEN MilestoneEntry("c", DependsOn(<<"a", "b">>))
                                  ELSE TaskEntry("c", v.sc, DayParts, <<>>,
                                                 DependsOn(<<"a", "b">>))>>]>>]
     : v \in [sa : 0..6,
              da : {DayParts, MaxDur * DayParts},
              sb : {0, 3, 9},
              sc : {NoDate, 0, 15},
              gv : {{}, {2}}]}

InitSchedule == InitWith(ScheduleInputs)

SpecSchedule == InitSchedule /\ [][Next]_vars

\* A project P of the tasks a, b and c after a, where b is shorter than,
\* as long as or longer than a and c together, and of a milestone m after
\* c, each with a declared colour or none; a second project Q; and the
\* critical_color given or not.
ColorInputs ==
    {[vacations |-> {},
      resources |-> <<TimeResource(tin, "workday", 3, NoVacations),
                      TimeResource(Martin, "workhour", 1, NoVacations)>>,
      critical_color |-> v.critical,
      projects |-> <<[name |-> "P",
                      tasks |-> <<Coloured(TaskEntry("a", 0, DayParts, <<>>,
                                                     DependsOnAbsent), v.ca),
                                  Coloured(TaskEntry("b", 0, v.db, <<>>,
                                                     DependsOnAbsent), v.cb),
                                  Coloured(TaskEntry("c", 0, DayParts, <<>>,
                                                     DependsOn(<<"a">>)), v.cc),
                                  Coloured(MilestoneEntry("m", DependsOn(<<"c">>)),
                                           v.cm)>>],
                     GraphProjectQ>>]
     : v \in [db : {d * DayParts : d \in 1..(MaxDur + 1)},
              ca : {NoColor, "blue"}, cb : {NoColor, "blue"},
              cc : {NoColor, "blue"}, cm : {NoColor, "blue"},
              critical : {NoColor, "red"}]}

InitColor == InitWith(ColorInputs)

SpecColor == InitColor /\ [][Next]_vars

\* Two projects P1 (a before b) and P2 (a task before y), where the first
\* task of P2 is named a as in P1, or x; the durations vary, and the first
\* task of P2 follows nothing or is a milestone.
SharedNameInputs ==
    {[vacations |-> {},
      resources |-> <<TimeResource(tin, "workday", 3, NoVacations)>>,
      projects |-> <<[name |-> "P1",
                      tasks |-> <<TaskEntry("a", 0, v.da, <<Token(1, tin)>>,
                                            DependsOnAbsent),
                                  TaskEntry("b", 0, v.db, <<>>, DependsOn(<<"a">>))>>],
                     [name |-> "P2",
                      tasks |-> <<IF v.milestone
                                  THEN MilestoneEntry(v.first, DependsOn(<<>>))
                                  ELSE TaskEntry(v.first, 1, v.dq, <<>>, DependsOnAbsent),
                                  TaskEntry("y", 1, DayParts, <<>>,
                                            IF v.milestone THEN DependsOnAbsent
                                            ELSE DependsOn(<<v.first>>))>>]>>]
     : v \in [da : WholeDurations, db : WholeDurations, dq : WholeDurations,
              first : {"a", "x"}, milestone : BOOLEAN]}

InitSharedName == InitWith(SharedNameInputs)

SpecSharedName == InitSharedName /\ [][Next]_vars

\* the longest task given as a sequence
MaxItems == 6

\* The items get_task_type is given: mappings with any of the keys of a
\* task, whose type is task, milestone, another text, a number or null;
\* sequences of every length; a text, a number, null.
TypeInputs ==
    {[shape |-> "dict", keys |-> ks, type |-> None]
        : ks \in SUBSET {"start", "duration", "resources", "depends_on"}}
    \cup {[shape |-> "dict", keys |-> ks \cup {"type"}, type |-> t]
        : ks \in SUBSET {"start", "duration", "resources", "depends_on"},
          t \in {"task", "milestone", "Milestone", "", "int", None}}
    \cup {[shape |-> "list", len |-> n] : n \in 0..MaxItems}
    \cup {[shape |-> sh] : sh \in {"str", "int", "null"}}

InitTypes == InitAt("types", TypeInputs)

SpecTypes == InitTypes /\ [][NextTypes]_vars

\* A chain a before b: a starts on Monday or Friday, lasts a quarter of
\* a day, one day, one and a quarter or two days, and uses tin, Martin or
\* both; tin is priced per workday, with or without vacations, or in unit.
QueryInputs ==
    {[vacations |-> {},
      resources |-> <<[name |-> tin, unit |-> v.unit, price |-> 3,
                       has_batch_size |-> FALSE, batch_size |-> 1,
                       vacations |-> IF v.unit = "unit" THEN NoVacations ELSE v.vac],
                      TimeResource(Martin, "workhour", 1, NoVacations)>>,
      projects |-> <<[name |-> "P1",
                      tasks |-> <<TaskEntry("a", v.sa, v.da, v.ra, DependsOnAbsent),
                                  TaskEntry("b", 0, DayParts, <<Token(1, Martin)>>,
                                            DependsOn(<<"a">>))>>]>>]
     : v \in [unit : {"workday", "unit"},
              vac : VacationLists,
              sa : {0, 4},
              da : {1, DayParts, DayParts + 1, MaxDur * DayParts},
              ra : {<<Token(2, tin)>>, <<Token(1, Martin)>>,
                    <<Token(2, tin), Token(1, Martin)>>}]}

InitQuery == InitWith(QueryInputs)

SpecQuery == InitQuery /\ [][NextQuery]_vars

\* the values an entry has at each key: None, dates, durations (in
\* ten-thousandths of a day), percentages, resources and depends_on as a
\* text or a list, a colour
ValuesAt(k) ==
    IF k = "start" THEN {Nil, Num(0)}
    ELSE IF k = "duration" THEN {Nil, Num(625), Num(1000 * Thousandth)}
    ELSE IF k = "percent_done" THEN {Nil, Num(0), Num(50)}
    ELSE IF k = "resources"
         THEN {Nil, Txt(<<"t", "i", "n", ",", "a">>), Lst(<<<<"2", " ", "a">>>>)}
    ELSE IF k = "depends_on"
         THEN {Nil, Txt(<<"a", ",", "b">>), Txt(<<"a", ",", " ", "b">>),
               Lst(<<<<"a">>>>), Lst(<<>>)}
    ELSE IF k = "color" THEN {Nil, Txt(<<"r", "e", "d">>)}
    ELSE {Nil, Num(625)}

\* the sequences of n values, one for each of the first n keys
RECURSIVE ItemsOfLen(_)
ItemsOfLen(n) ==
    IF n = 0 THEN {<<>>}
    ELSE {Append(items, v) : items \in ItemsOfLen(n - 1), v \in ValuesAt(EntryKeys[n])}

\* Task entries as sequences of up to MaxItems values, and as mappings with
\* start, duration and percent_done given or missing and the estimates
\* given, null or missing.
EntryInputs ==
    {[shape |-> "list", items |-> items, map |-> <<>>]
        : items \in UNION {ItemsOfLen(n) : n \in 0..MaxItems}}
    \cup {[shape |-> "dict", items |-> <<>>,
           map |-> [k \in Range(EntryKeys) |->
                      IF k \in {"start", "duration", "percent_done"} THEN m[k]
                      ELSE IF k \in {"best", "optimal", "worst"} THEN m["best"]
                      ELSE Missing]]
            : m \in [{"start", "duration", "percent_done", "best"}
                        -> {Missing, Nil, Num(625)}]}

InitEntry == InitAt("entry", EntryInputs)

SpecEntry == InitEntry /\ [][NextEntry]_vars

InitFields == InitAt("fields", FieldInputs)

SpecFields == InitFields /\ [][NextFields]_vars

\* the resource convert is called on
UnitInputs ==
    {[name |-> tin, unit |-> u, price |-> p, has_batch_size |-> TRUE,
      batch_size |-> 2, vacations |-> NoVacations]
        : u \in {"unit", "batch", "workhour", "workday", "workweek", "foo"},
          p \in {1, 600}}

InitUnits == InitAt("units", UnitInputs)

SpecUnits == InitUnits /\ [][NextUnits]_vars

\* ---------------------------------------------------------- properties

\* GanttDrawer is constructed
Done == pc \in {"ready", "budget"}

\* the names project i declares
Declared(i) == Names(defn.projects[i].tasks)

\* critical path method over cpm_data: earliest finish, latest start, slack
RECURSIVE EarliestFinish(_, _)
EarliestFinish(cd, n) ==
    LET before == Range(Lookup(cd, n).cpm_depends_of)
    IN  (IF before = {} THEN 0
         ELSE SetMax({EarliestFinish(cd, m) : m \in before}))
        + Lookup(cd, n).duration

ProjectFinish(cd) == SetMax({EarliestFinish(cd, n) : n \in Names(cd)})

RECURSIVE LatestStart(_, _)
LatestStart(cd, n) ==
    (IF ToNodes(cd, n) = {} THEN ProjectFinish(cd)
     ELSE SetMin({LatestStart(cd, m) : m \in ToNodes(cd, n)}))
    - Lookup(cd, n).duration

Slack(cd, n) ==
    LatestStart(cd, n) - (EarliestFinish(cd, n) - Lookup(cd, n).duration)

ZeroSlack(cd) == {n \in Names(cd) : Slack(cd, n) = 0}

\* C1: the critical path computed for a project is exactly the set of its
\* tasks with zero slack, tasks on tied longest paths included.
C1_CriticalPathIsZeroSlackSet ==
    \A i \in DOMAIN critical :
        Range(critical[i]) = ZeroSlack(CpmData(tasks, defn.projects[i].name))

\* C3: once GanttDrawer is constructed, every task and milestone a project
\* declares is in GanttDrawer.tasks and in its Project, also when the
\* project has no dependency edge or the node is on no edge.
C3_EveryDeclaredNodeRegistered ==
    Done =>
        \A i \in DOMAIN defn.projects :
            /\ Declared(i) \subseteq Names(gtasks)
            /\ Declared(i) \subseteq Names(projects[i].tasks)

\* some entry names a predecessor that its project does not declare
HasUndeclaredPred ==
    \E i \in DOMAIN defn.projects :
        \E j \in DOMAIN defn.projects[i].tasks :
            LET dep == defn.projects[i].tasks[j].depends_on
            IN  /\ dep.shape = "list"
                /\ Range(dep.names) \ Declared(i) # {}

\* C4: a definition in which a task or milestone depends on a name its
\* project does not declare never gets a constructed GanttDrawer: processing
\* ends with an exception, and no node is registered without one of its
\* predecessors.
C4_UndeclaredPredecessorIsAnError ==
    HasUndeclaredPred =>
        /\ ~Done
        /\ pc = "failed" => err \in {"KeyError", "IndexError", "TypeError", "AssertionError"}
        /\ \A i \in DOMAIN gtasks : Range(gtasks[i].depends_of) \subseteq Names(gtasks)

\* a milestone's undeclared predecessor passed ProjectReader and stopped
\* _register_tasks
C4_Witness ==
    /\ HasUndeclaredPred
    /\ pc = "failed"
    /\ err = "IndexError"
    /\ task_registry # <<>>

\* C5: no task is registered while one of its usage tokens names a resource
\* that Resources does not define (the lookup is fatal).
C5_UndefinedResourceIsFatal ==
    \A i \in DOMAIN gtasks :
        \A k \in DOMAIN Lookup(tasks, gtasks[i].name).resources :
            Lookup(tasks, gtasks[i].name).resources[k].name \in Names(resources)

\* the numerators of get_cost over the days of the whole definition
SumCost(task, resource) ==
    SumSeq([ind \in DOMAIN BudgetDays |->
               GetCost(task, resource, BudgetDays[ind]).num])

\* C6: for a task of positive duration D and a time-based resource it uses
\* that has no unavailable date, get_cost summed over all dates is
\* rate * usage * D, whatever day the task starts on.
C6_BudgetConservation ==
    (Done /\ defn.vacations = {}) =>
        \A i \in DOMAIN gtasks :
            \A r \in Range(gtasks[i].resources) :
                (gtasks[i].duration > 0 /\ Lookup(resources, r).vacations = {}) =>
                    SumCost(gtasks[i].name, r)
                        = Convert(Lookup(resources, r), CeilDays(gtasks[i].duration)).num
                          * GetUsage(gtasks[i].name, r) * gtasks[i].duration

\* the dates resource r is declared unavailable on
DeclaredUnavailable(r) ==
    defn.vacations
    \cup UNION {Range(defn.resources[k].vacations.dates)
                   : k \in {k \in DOMAIN defn.resources : defn.resources[k].name = r}}

\* C7: on every date a resource is declared unavailable (its own vacations
\* or the global Vacations) get_cost of a task with a duration is zero and
\* budget() has no row for that task, resource and date.
C7_NoCostWhenUnavailable ==
    Done =>
        \A i \in DOMAIN gtasks : \A r \in Names(resources) :
            \A d \in DeclaredUnavailable(r) :
                (~gtasks[i].is_milestone /\ ~GetCostRaises(gtasks[i].name)) =>
                    /\ GetCost(gtasks[i].name, r, d).num = 0
                    /\ \A k \in DOMAIN ledger :
                          ~(/\ ledger[k].task = gtasks[i].name
                            /\ ledger[k].resource = r
                            /\ ledger[k].date = d)

\* C8: for every task, resource and date outside the task's window
\* [start_date, end_date], get_cost returns zero; is_active holds exactly
\* inside the window.
C8_NoCostOutsideWindow ==
    Done =>
        \A i \in DOMAIN gtasks : \A r \in Names(resources) :
            \A d \in (GetBounds.start - 1)..(GetBounds.stop + 1) :
                ~gtasks[i].is_milestone =>
                    /\ IsActive(gtasks[i].name, d)
                          <=> (gtasks[i].start_date <= d /\ d <= gtasks[i].end_date)
                    /\ ~IsActive(gtasks[i].name, d) =>
                          /\ ~GetCostRaises(gtasks[i].name)
                          /\ GetCost(gtasks[i].name, r, d).num = 0

\* the rows of the ledger for one (project, task, resource, date)
RowsFor(p, t, r, d) ==
    {k \in DOMAIN ledger : /\ ledger[k].project = p
                           /\ ledger[k].task = t
                           /\ ledger[k].resource = r
                           /\ ledger[k].date = d}

\* C9: budget() returns exactly one row for each (project, task, resource,
\* date) of the span whose get_cost is not zero and no other row; category
\* and subcategory are blank.
C9_OneRowPerNonzeroCost ==
    pc = "budget" =>
        /\ \A k \in DOMAIN ledger :
              /\ ledger[k].amount.num # 0
              /\ ledger[k].category = "" /\ ledger[k].subcategory = ""
        /\ \A i \in DOMAIN projects : \A j \in DOMAIN projects[i].tasks :
              \A r \in Names(resources) : \A d \in Range(BudgetDays) :
                  LET t == projects[i].tasks[j]
                  IN  ~t.is_milestone =>
                          Cardinality(RowsFor(projects[i].name, t.name, r, d))
                              = Bit(GetCost(t.name, r, d).num # 0)

\* positions in the order of encounter
ProjectIndex(p) == CHOOSE i \in DOMAIN projects : projects[i].name = p

TaskIndex(p, t) ==
    CHOOSE j \in DOMAIN projects[ProjectIndex(p)].tasks :
        projects[ProjectIndex(p)].tasks[j].name = t

ResourceIndex(t, r) ==
    SetMin({k \in DOMAIN Lookup(gtasks, t).resources :
               Lookup(gtasks, t).resources[k] = r})

\* C10: the rows of budget() are in order of encounter: by project, within
\* a project by task, within a task by resource, and within a (task,
\* resource) pair by strictly ascending date.
C10_RowsInEncounterOrder ==
    pc = "budget" =>
        \A k \in DOMAIN ledger : \A l \in DOMAIN ledger :
            k < l =>
                LET x == ledger[k]
                    y == ledger[l]
                IN  /\ ProjectIndex(x.project) <= ProjectIndex(y.project)
                    /\ x.project = y.project =>
                          TaskIndex(x.project, x.task) <= TaskIndex(y.project, y.task)
                    /\ (x.project = y.project /\ x.task = y.task) =>
                          ResourceIndex(x.task, x.resource) <= ResourceIndex(y.task, y.resource)
                    /\ (x.project = y.project /\ x.task = y.task /\ x.resource = y.resource) =>
                          x.date < y.date

\* C11: without an explicit duration the normalised duration is
\* (best + 4 * optimal + worst) / 6 rounded to the thousandth, and equals d
\* exactly when best = optimal = worst = d, for every d; an explicit
\* duration is kept and best, optimal and worst are set to it.
C11_EstimateIsExact ==
    pc = "normalised" =>
        IF defn.duration.none
        THEN LET six == defn.best.value + 4 * defn.optimal.value + defn.worst.value
                 off == 6 * out.duration - six
             IN  /\ out.duration % Thousandth = 0
                 /\ 2 * off <= 6 * Thousandth /\ -2 * off <= 6 * Thousandth
                 /\ (defn.best = defn.optimal /\ defn.optimal = defn.worst) =>
                        out.duration = defn.best.value
        ELSE /\ out.duration = defn.duration.value
             /\ out.best = out.duration
             /\ out.optimal = out.duration
             /\ out.worst = out.duration

\* a token of the form <number><whitespace><name>, the name being any text
\* without blank or comma
HasQuantity(t) ==
    \E i \in DOMAIN t : \E j \in DOMAIN t :
        /\ i < j /\ j < Len(t)
        /\ IsNumber(SubText(t, 1, i))
        /\ \A k \in (i + 1)..j : IsSpace(t[k])
        /\ \A k \in (j + 1)..Len(t) : ~IsSpace(t[k]) /\ t[k] # ","

\* the tokens of a field before quantities are given: null is no token, a
\* text with commas is split and each part trimmed, a text without is one
\* trimmed token, a list is its items
TrimmedTokens(f) ==
    IF f.shape = "str" /\ HasComma(f.text)
    THEN [k \in DOMAIN SplitCommas(f.text) |-> Strip(SplitCommas(f.text)[k])]
    ELSE IF f.shape = "str" THEN <<Strip(f.text)>>
    ELSE f.items

\* C12: the resources field is normalised to its tokens (null: none; text
\* with commas: split and trimmed; bare text: one trimmed token; list: as
\* is; any other shape: an error), and a token that carries a quantity is
\* unchanged while one that lacks it is prefixed with "1 ".
C12_ResourceTokensNormalised ==
    /\ defn.resources.shape = "other" => pc # "normalised"
    /\ pc = "normalised" =>
          /\ Len(out.resources) = Len(TrimmedTokens(defn.resources))
          /\ \A k \in DOMAIN out.resources :
                LET t == TrimmedTokens(defn.resources)[k]
                IN  out.resources[k] = IF HasQuantity(t) THEN t
                                       ELSE <<"1", " ">> \o t

\* C13: the depends_on field gets the handling of the resources field
\* without quantities: null gives no name, a text with commas is split and
\* each name trimmed, a bare text is one name, a list is used as is, any
\* other shape is an error.
C13_DependsOnNormalised ==
    /\ defn.depends_on.shape = "other" => pc # "normalised"
    /\ pc = "normalised" =>
          IF defn.depends_on.shape = "str" /\ ~HasComma(defn.depends_on.text)
          THEN out.depends_on = <<defn.depends_on.text>>
          ELSE out.depends_on = TrimmedTokens(defn.depends_on)

\* a resource priced in batch without batch_size, or priced in unit or
\* batch with vacation dates
BadResource(r) ==
    \/ r.unit = "batch" /\ ~r.has_batch_size
    \/ r.unit \in {"unit", "batch"} /\ r.vacations.given /\ r.vacations.dates # <<>>

\* C14: when a resource is priced in batch without batch_size, or in unit
\* or batch with vacation dates, the construction of GanttDrawer ends with
\* an error raised while the resources are registered: no task or milestone
\* is ever scheduled or in GanttDrawer.tasks.
C14_BadResourceStopsRegistration ==
    (\E k \in DOMAIN defn.resources : BadResource(defn.resources[k])) =>
        /\ pc \in {"reader", "resources", "failed"}
        /\ pc = "failed" => err \in {"ValueError", "TypeError"}
        /\ gtasks = <<>> /\ task_registry = <<>>
        /\ \A i \in DOMAIN projects : projects[i].tasks = <<>>

\* a unit-priced resource with a vacation date was refused after another
\* resource was registered
C14_Witness ==
    /\ pc = "failed"
    /\ err = "ValueError"
    /\ resources # <<>>
    /\ \E k \in DOMAIN defn.resources :
          /\ defn.resources[k].unit = "unit"
          /\ Len(defn.resources[k].vacations.dates) = 1
    /\ gtasks = <<>>

\* C15: a unit or alias registered through one GanttDrawer is known to that
\* instance and to no other instance, made before or after.
C15_RegistryScopedToInstance ==
    out.fn \in {"define_unit", "define_alias"} =>
        /\ out.names \subseteq DOMAIN RegistryOf(drawers[out.self])
        /\ \A j \in DOMAIN drawers \ {out.self} :
              out.names \cap DOMAIN RegistryOf(drawers[j]) = {}

\* the hierarchy in fifths of a workhour: workday = 8 workhour,
\* workweek = 5 workday, workmonth = 4.33 workweek, workquarter = 3 workmonth
Hierarchy(u) ==
    IF u = "workhour" THEN 5
    ELSE IF u = "workday" THEN 8 * 5
    ELSE IF u = "workweek" THEN 5 * 8 * 5
    ELSE IF u = "workmonth" THEN (433 * 5 * 8 * 5) \div 100
    ELSE 3 * ((433 * 5 * 8 * 5) \div 100)

HierarchyUnits == {"workhour", "workday", "workweek", "workmonth", "workquarter"}

\* C16: for a resource priced in a time unit, convert(target, number_of_days)
\* returns price * (target / price unit) by the fixed hierarchy, the same
\* for every number_of_days, None included.
C16_TimePriceConversion ==
    (out.fn = "convert" /\ defn.unit \in HierarchyUnits /\ out.unit \in HierarchyUnits) =>
        /\ out.result.raises = None
        /\ out.result.num * Hierarchy(defn.unit)
              = defn.price * Hierarchy(out.unit) * out.result.den
        /\ \A n \in DaysArguments :
              ResourceConvert(ureg, defn, out.unit, n) = out.result

\* 600 per workday is 3000 per workweek, asked without number_of_days
C16_Witness ==
    /\ out.fn = "convert"
    /\ defn.unit = "workday" /\ defn.price = 600
    /\ out.unit = "workweek" /\ out.number_of_days.none
    /\ out.result.raises = None
    /\ out.result.num = 3000 * out.result.den

\* C17: for a resource priced in unit, convert returns price / total_days
\* per workday, for one priced in batch price / batch_size / total_days;
\* without total_days it raises an error.
C17_FlatPriceConversion ==
    (out.fn = "convert" /\ defn.unit \in {"unit", "batch"} /\ out.unit = "workday") =>
        IF out.number_of_days.none THEN out.result.raises # None
        ELSE out.number_of_days.value > 0 =>
                /\ out.result.raises = None
                /\ out.result.num * out.number_of_days.value
                      * (IF defn.unit = "batch" THEN defn.batch_size ELSE 1)
                      = defn.price * out.result.den

\* a batch of 2 priced 600 over 2 days is 150 a workday; and the call
\* without total_days raised
C17_Witness ==
    /\ out.fn = "convert"
    /\ defn.unit = "batch" /\ defn.price = 600 /\ defn.batch_size = 2
    /\ out.unit = "workday"
    /\ \/ /\ out.number_of_days = Days(2)
          /\ out.result.raises = None
          /\ out.result.num = 150 * out.result.den
          /\ Len(drawers) = 1
       \/ /\ out.number_of_days.none
          /\ out.result.raises = "UndefinedUnitError"
          /\ Len(drawers) = 2

\* the start an entry of the work list declares
DeclaredStart(n) == Lookup(tasks, n).start

\* C18: a registered node with predecessors starts one calendar day after
\* the latest end of its predecessors, whether its declared start is earlier
\* or later than that; a registered node without predecessors starts on its
\* declared start.
C18_DependencyStartTakesPrecedence ==
    \A i \in DOMAIN task_registry :
        LET g == task_registry[i]
        IN  IF g.depends_of # <<>>
            THEN g.start_date
                    = SetMax({Lookup(task_registry, p).end_date
                                 : p \in Range(g.depends_of)}) + 1
            ELSE g.start_date = DeclaredStart(g.name)

\* the entry of the definition a record of self.tasks was made from
EntryOf(t) ==
    LET p == CHOOSE q \in Range(defn.projects) : q.name = t.project
    IN  Lookup(p.tasks, t.name)

\* the critical path computed for the project of a record
CriticalOf(t) ==
    critical[CHOOSE k \in DOMAIN defn.projects : defn.projects[k].name = t.project]

\* the records of the projects whose pass of the reader is over
ReadRecords ==
    {t \in Range(tasks) :
        \E k \in DOMAIN critical : defn.projects[k].name = t.project}

\* C19: once a project is read, the record of a task has responsible
\* "CRITICAL" exactly when the task is on the critical path computed for its
\* project and "" otherwise; a critical task without a colour has the
\* critical_color, one with a declared colour keeps it, and the colour of
\* every other task and of every milestone is the declared one.
C19_CriticalMarks ==
    \A t \in ReadRecords :
        LET on == ~t.is_milestone /\ t.name \in Range(CriticalOf(t))
        IN  /\ t.responsible = IF on THEN "CRITICAL" ELSE ""
            /\ t.color = IF on /\ EntryOf(t).color = NoColor
                         THEN CriticalColor(defn)
                         ELSE EntryOf(t).color

\* both projects are read; in P a critical task without a colour has turned
\* red, a critical task declared blue is still blue, and the uncoloured
\* task off the path and the milestone have no colour
C19_Witness ==
    /\ Len(critical) = 2
    /\ critical[1] = <<"a", "c">>
    /\ Lookup(tasks, "a").color = "red" /\ EntryOf(Lookup(tasks, "a")).color = NoColor
    /\ Lookup(tasks, "c").color = "blue"
    /\ Lookup(tasks, "b").color = NoColor /\ Lookup(tasks, "b").responsible = ""
    /\ Lookup(tasks, "m").color = NoColor
    /\ Lookup(tasks, "a").responsible = "CRITICAL"

\* the predecessor relation a project declares, over tasks and milestones
DeclaredEdges(proj) ==
    UNION {{<<pred, proj.tasks[i].name>> : pred \in Range(proj.tasks[i].depends_on.names)}
              : i \in DOMAIN proj.tasks}

HasCycle(proj) ==
    \E n \in Names(proj.tasks) :
        <<n, n>> \in Closure(DeclaredEdges(proj), Len(proj.tasks))

\* C20: when the predecessor relation of a project has a cycle, the run
\* never completes: it ends with an error, no critical path is recorded for
\* that project, none of its nodes enters GanttDrawer.tasks, and the
\* topological loop registers no node twice.
C20_CycleIsAnError ==
    \A k \in DOMAIN defn.projects :
        HasCycle(defn.projects[k]) =>
            /\ ~Done
            /\ pc = "failed" =>
                  err \in {"KeyError", "AssertionError", "NetworkXUnfeasible"}
            /\ Len(critical) < k
            /\ Names(gtasks) \cap Names(defn.projects[k].tasks) = {}
            /\ Cardinality(Names(task_registry)) = Len(task_registry)
            /\ Len(task_registry) <= Len(defn.projects[k].tasks)

\* the record of entry e of project k as the pass over project k left it
RecordAfterPass(k, e) ==
    MarkCritical(<<TmpRecord(defn.projects[k].name, e)>>, critical[k],
                 CriticalColor(defn))[1]

\* C21: once a project is read, the record of each of its entries stays in
\* self.tasks as its own pass left it (project tag, sub-records, critical
\* mark), whatever later projects declare, a task of the same name included;
\* so build_project has a pertchart entry for each of its tasks.
C21_ProjectsAreIndependent ==
    \A k \in DOMAIN critical :
        \A i \in DOMAIN defn.projects[k].tasks :
            RecordAfterPass(k, defn.projects[k].tasks[i]) \in Range(tasks)

\* C22: get_task_type returns "milestone" only for a mapping whose type is
\* "milestone", "task" for a mapping whose type is "task" and for every
\* sequence, and raises for a mapping with another type, a mapping without
\* type and whatever is neither a mapping nor a sequence.
C22_TaskTypeDiscrimination ==
    out.fn = "get_task_type" =>
        LET typed == defn.shape = "dict" /\ "type" \in defn.keys
        IN  /\ out.result.value = "milestone" <=> typed /\ defn.type = "milestone"
            /\ out.result.value = "task"
                  <=> (typed /\ defn.type = "task") \/ defn.shape = "list"
            /\ out.result.raises # None
                  <=> \/ typed /\ defn.type \notin {"task", "milestone"}
                      \/ defn.shape = "dict" /\ "type" \notin defn.keys
                      \/ defn.shape \notin {"dict", "list"}
            /\ out.result.raises # None => out.result.value = None

\* a mapping whose type is spelled Milestone was rejected
C22_Witness ==
    /\ out.fn = "get_task_type"
    /\ defn.shape = "dict" /\ "type" \in defn.keys /\ defn.type = "Milestone"
    /\ out.result.raises = "AssertionError"

\* the call was given a text that is no date
BadDateGiven ==
    /\ out.fn \in {"Task.is_active", "is_active", "is_available", "get_cost"}
    /\ out.date.is_str
    /\ out.date.text \in BadDateTexts

\* a ValueError whose message holds the text given as the date
EchoesDate ==
    /\ out.result.raises = "ValueError"
    /\ IsSubstring(out.date.text, out.result.message)

\* C23 as stated: Task.is_active, is_active, is_available and get_cost given
\* a text that is no date raise a ValueError whose message holds the text,
\* whatever the other arguments are.
C23_BadDateIsEchoed ==
    BadDateGiven => EchoesDate

\* C23, amended: the same, except that is_available given an undefined
\* resource raises the ValueError that names the resource, before the date
\* is read.
C23_BadDateIsEchoedAfterResource ==
    BadDateGiven =>
        IF out.fn = "is_available" /\ out.resource \notin Names(resources)
        THEN /\ out.result.raises = "ValueError"
             /\ out.result.message = ResourceNotDefined(out.resource)
        ELSE /\ EchoesDate
             /\ out.result.message = UnrecognisedDate(out.date.text)

\* get_cost of an unknown task and an undefined resource on "2022-09-31"
\* raised the ValueError of the date
C23_Witness ==
    /\ out.fn = "get_cost"
    /\ out.task = nope /\ out.resource = zed
    /\ out.date.text = <<"2", "0", "2", "2", "-", "0", "9", "-", "3", "1">>
    /\ EchoesDate

\* the mapping {type: task, start, duration, percent_done, resources,
\* depends_on, color} that carries the values of a sequence, position by
\* position in this order, and lacks the keys of the absent positions
MappingOf(items) ==
    [shape |-> "dict", items |-> <<>>,
     map |-> [k \in Range(EntryKeys) |->
                LET order == <<"start", "duration", "percent_done", "resources",
                               "depends_on", "color">>
                    at == {i \in DOMAIN order : order[i] = k}
                IN  IF at # {} /\ SetMin(at) <= Len(items) THEN items[SetMin(at)]
                    ELSE Missing]]

\* C24: a task given as a sequence of up to six values normalises to the
\* task, cpm and pertchart sub-records of the mapping that carries the same
\* values under start, duration, percent_done, resources, depends_on, color
\* and lacks the keys of the absent positions; and where the sequence is
\* refused, so is the mapping.
C24_SequenceIsTheMapping ==
    (defn.shape = "list" /\ Len(defn.items) <= 6 /\ pc \in {"normalised", "failed"}) =>
        /\ pc = "normalised" => out.result \in NormaliseEntry(MappingOf(defn.items))
        /\ {r \in NormaliseEntry(defn) : r.raises = None}
              = {r \in NormaliseEntry(MappingOf(defn.items)) : r.raises = None}

\* the sequence [None, 1.0] alone was normalised: percent_done 0, no
\* resources, the synthetic predecessor
C24_Witness ==
    /\ pc = "normalised"
    /\ out.fn = "entry"
    /\ defn.shape = "list"
    /\ defn.items = <<Nil, Num(1000 * Thousandth)>>
    /\ out.result.task.percent_done = Num(0)
    /\ out.result.task.resources = <<>>
    /\ out.result.pertchart.pred = <<StartText>>
    /\ out.result.cpm.duration = Num(1000 * Thousandth)

\* get_cost returned an amount for a registered task and a resource the
\* task is bound to and uses, on a day the task is active and the resource
\* is available
Charged ==
    /\ out.fn = "get_cost"
    /\ out.result.raises = None
    /\ out.task \in Names(gtasks)
    /\ out.resource \in Names(resources)
    /\ IsUsing(out.task, out.resource)
    /\ GetUsage(out.task, out.resource) > 0
    /\ IsActive(out.task, DayOf(out.date))
    /\ IsAvailable(out.resource, DayOf(out.date))

\* the amount is the rate per workday times the usage times parts / DayParts
ChargedParts(parts) ==
    LET rate == Convert(Lookup(resources, out.resource),
                        CeilDays(Lookup(gtasks, out.task).duration))
    IN  out.result.value.num * rate.den * DayParts
            = rate.num * GetUsage(out.task, out.resource) * parts
                  * out.result.value.den

\* C25: the time fraction get_cost applies is 1 on every active day of the
\* task, except on the final day of a task with a fractional duration,
\* where it is the fractional part of the duration.
C25_TimeFraction ==
    Charged =>
        LET mytask == Lookup(gtasks, out.task)
        IN  IF DayOf(out.date) = mytask.end_date /\ mytask.duration % DayParts # 0
            THEN ChargedParts(mytask.duration % DayParts)
            ELSE ChargedParts(DayParts)

\* C26: in the pertchart record of a normalised task pred is not empty: it
\* is ["START"] when the cpm record has no predecessor and the list of the
\* cpm record otherwise; start and end are 0 and the duration is the
\* normalised one.  The cpm record has no predecessor when depends_on is
\* missing, null or an empty list, the items of depends_on when it is a
\* list, and never "START".
C26_PertchartPredecessors ==
    (pc = "normalised" /\ out.fn = "entry") =>
        LET r == out.result
            task == IF defn.shape = "list" THEN Fill(defn.items) ELSE defn.map
        IN  /\ r.pertchart.pred # <<>>
            /\ r.pertchart.pred = IF r.cpm.depends_of = <<>> THEN <<StartText>>
                                  ELSE r.cpm.depends_of
            /\ StartText \notin Range(r.cpm.depends_of)
            /\ task["depends_on"].kind \in {"absent", "null"} => r.cpm.depends_of = <<>>
            /\ task["depends_on"].kind = "list"
                  => r.cpm.depends_of = task["depends_on"].items
            /\ r.pertchart.start = 0 /\ r.pertchart.end = 0
            /\ r.pertchart.duration = r.task.duration
            /\ r.cpm.duration = r.task.duration
            /\ task["duration"].kind = "num" => r.pertchart.duration = task["duration"]

\* a sequence with an empty depends_on and one with the list [a] were normalised
C26_Witness ==
    /\ pc = "normalised" /\ out.fn = "entry"
    /\ defn.shape = "list" /\ Len(defn.items) >= 5
    /\ \/ /\ defn.items[5] = Lst(<<>>)
          /\ out.result.pertchart.pred = <<StartText>>
          /\ out.result.cpm.depends_of = <<>>
          /\ Len(defn.items) = 5
       \/ /\ defn.items[5] = Lst(<<<<"a">>>>)
          /\ out.result.pertchart.pred = <<<<"a">>>>
          /\ Len(defn.items) = 6

\* C27: is_available of an undefined resource raises ValueError; of a
\* defined one it is False for a date outside the span of get_bounds, and
\* inside the span it is True exactly when the date is not one of the dates
\* the resource is declared unavailable.
C27_AvailableInsideSpan ==
    (out.fn = "is_available" /\ ~DateFails(out.date)) =>
        IF out.resource \notin Names(resources)
        THEN out.result.raises = "ValueError"
        ELSE /\ out.result.raises = None
             /\ out.result.value.num = 1
                  <=> /\ GetBounds.start <= DayOf(out.date)
                      /\ DayOf(out.date) <= GetBounds.stop
                      /\ DayOf(out.date) \notin DeclaredUnavailable(out.resource)

\* the quantities of the tokens of a task that name the resource exactly
NamedQuantities(task, resource) ==
    {tok.qty : tok \in {t \in Range(Lookup(tasks, task).resources) : t.name = resource}}

\* C28: a registered task is bound only to resources that one of its usage
\* tokens names exactly, and get_usage(task, R) is the quantity of the token
\* that names R exactly, 0 when there is none.
C28_BoundToNamedResources ==
    /\ \A i \in DOMAIN gtasks :
          \A r \in Range(gtasks[i].resources) :
              NamedQuantities(gtasks[i].name, r) # {}
    /\ (out.fn = "get_usage" /\ out.result.raises = None) =>
          IF NamedQuantities(out.task, out.resource) = {}
          THEN out.result.value.num = 0
          ELSE out.result.value.num \in NamedQuantities(out.task, out.resource)

\* the milestones of the project whose tasks are being registered
MilestonesInHand ==
    IF pi \in DOMAIN projects
    THEN {t \in Range(FilteredTasks(tasks, projects[pi].name)) : t.is_milestone}
    ELSE {}

\* C29: once _register_tasks has built its work list, the entry of every
\* milestone carries the predecessor list of the milestone sub-record, also
\* when that list is empty or null, and a milestone whose list is empty does
\* not make the registration stop on the unset list of the task sub-record.
C29_MilestoneEntryFromMilestone ==
    /\ pc \in {"project", "tasks", "ready"} =>
          \A i \in DOMAIN tasks :
              tasks[i].is_milestone => DependsOf(tasks[i]) = tasks[i].milestone_depends_of
    /\ (pc = "failed" /\ err = "TypeError") =>
          \A t \in MilestonesInHand :
              ~(~t.milestone_depends_of.none /\ t.milestone_depends_of.names = <<>>)

\* the numerators of get_cost (task, resource) summed over the days from..to;
\* the amounts of one task and resource have the same denominator
RECURSIVE SumOfCosts(_, _, _, _)
SumOfCosts(task, resource, from, to) ==
    IF from > to THEN 0
    ELSE GetCost(task, resource, from).num + SumOfCosts(task, resource, from + 1, to)

\* C30: for a resource priced in "unit" that a task of positive duration
\* uses with quantity U, the amounts of get_cost over the active days of the
\* task sum to price * U, for a whole and for a fractional duration.
C30_FlatPriceInFull ==
    (Charged /\ Lookup(resources, out.resource).unit = "unit") =>
        LET mytask == Lookup(gtasks, out.task)
            res == Lookup(resources, out.resource)
            den == GetCost(out.task, out.resource, mytask.start_date).den
        IN  SumOfCosts(out.task, out.resource, mytask.start_date, mytask.end_date)
                = res.price * GetUsage(out.task, out.resource) * den

====
